---- MODULE Spec2Model ----
(***************************************************************************)
(* The contact page of the Arodos website: the mobile menu toggle          *)
(* (src/unnamed/part_000) and the contact form with its sendEmail helper   *)
(* and formSubmitTemplate (src/script.js), as one browser event loop.      *)
(* Every action is one run-to-completion task of the event loop: a DOM     *)
(* event handler up to its first await, or the continuation that runs when *)
(* a promise settles (with all the microtasks it triggers).                *)
(*                                                                         *)
(* Text is a sequence of tokens: one token per character of user input,    *)
(* one token per literal stretch of the template.                          *)
(***************************************************************************)
EXTENDS Integers, Sequences, FiniteSets, TLC

\* How many submit events the model follows.
MaxSubmits == 2

Ids == 1..MaxSubmits

VARIABLES
    ready,      \* DOMContentLoaded has fired: both listeners are registered
    menu,       \* which of the three menu elements carry the class "hidden"
    menuLog,    \* history: the menu states after the most recent clicks (at most 3)
    fields,     \* the value of the three form controls
    pc,         \* per submit-handler invocation: idle, fetching, parsing, done
    alerts,     \* per invocation: how many alerts it has shown
    nSubmits,   \* submit events handled
    nPosts,     \* POSTs issued to the endpoint
    lastPost,   \* history: the form values read and the body POSTed by the latest submit
    last,       \* history: how the most recently finished invocation ended
    call        \* a direct call of sendEmail (used by SpecDoc only)

vars == <<ready, menu, menuLog, fields, pc, alerts, nSubmits, nPosts, lastPost, last, call>>

----------------------------------------------------------------------------
(* Text *)

RECURSIVE TrimStart(_)
TrimStart(s) ==
    IF s # <<>> /\ Head(s) = " " THEN TrimStart(Tail(s)) ELSE s

RECURSIVE TrimEnd(_)
TrimEnd(s) ==
    IF s # <<>> /\ s[Len(s)] = " " THEN TrimEnd(SubSeq(s, 1, Len(s) - 1)) ELSE s

\* String.prototype.trim
Trim(s) == TrimEnd(TrimStart(s))

\* String.prototype.includes
Contains(hay, needle) ==
    \E i \in 0..(Len(hay) - Len(needle)) : SubSeq(hay, i + 1, i + Len(needle)) = needle

----------------------------------------------------------------------------
(* src/script.js: formSubmitTemplate and sendEmail *)

\* The template literal: the literal stretches T0..T4 around ${name}, ${email}
\* (twice: the mailto href and the link text) and ${message}.
formSubmitTemplate(name, email, message) ==
    <<"T0">> \o name \o <<"T1">> \o email \o <<"T2">> \o email \o <<"T3">> \o message \o <<"T4">>

Endpoint == "https://send-email-api-v2.backendservices.in"
Sender == [name |-> "Simmer It", email |-> "noreply@arodos.com"]
Destination == "you@example.com"
Subject == "New Message from Website Contact Form"

\* The name of the body field each destructured property is stored under.
BodyKey(k) == IF k = "sendTo" THEN "to" ELSE k

\* A sendEmail that reads the HTML from htmlPart, as its documentation says.
RequestBodyDocumented(props) ==
    LET present == {k \in {"sendTo", "subject", "htmlPart"} : k \in DOMAIN props}
        key(k) == IF k = "sendTo" THEN "to" ELSE IF k = "htmlPart" THEN "htmlpart" ELSE k
    IN  [f \in {"from"} \cup {key(k) : k \in present} |->
            CASE f = "from" -> Sender
              [] f = "to" -> props["sendTo"]
              [] f = "subject" -> props["subject"]
              [] f = "htmlpart" -> props["htmlPart"]]

\* const { sendTo, subject, htmlpart } = props; body = {from, to, subject, htmlpart};
\* JSON.stringify(body). A property props does not carry destructures to
\* undefined, and JSON.stringify leaves an undefined property out: the body
\* on the wire has the field exactly when props has the property.
RequestBody(props) ==
    LET present == {k \in {"sendTo", "subject", "htmlpart"} : k \in DOMAIN props}
    IN  [f \in {"from"} \cup {BodyKey(k) : k \in present} |->
            CASE f = "from" -> Sender
              [] f = "to" -> props["sendTo"]
              [] f = "subject" -> props["subject"]
              [] f = "htmlpart" -> props["htmlpart"]]

\* The responses the endpoint can give.
Statuses == {200, 201, 404, 500}
ResOk(status) == status >= 200 /\ status <= 299

\* Response bodies, as JSON text; the last is not JSON.
BodyTexts == {"null", "false", "0", "\"\"", "{\"ok\":true}", "<html>"}
Parsable(text) == text # "<html>"
\* The value res.json() yields is named by its JSON text; its truthiness in JS:
Truthy(text) == text \notin {"null", "false", "0", "\"\""}

Null == [tag |-> "null"]
Rejected == [tag |-> "rejected"]
Result(data) == [tag |-> "object", data |-> data]

\* The ways one sendEmail attempt can end.
Kinds == {"http", "network", "parse", "ok"}

\* A sendEmail with no try/catch around the fetch.
SendEmailReturnNoCatch(kind, data) ==
    CASE kind = "http" -> Null
      [] kind = "network" -> Rejected
      [] kind = "parse" -> Rejected
      [] kind = "ok" -> Result(data)

\* What the promise of sendEmail settles to: if (!res.ok) return null;
\* const data = await res.json(); return { data }; catch: return null.
SendEmailReturn(kind, data) ==
    CASE kind = "http" -> Null
      [] kind = "network" -> Null
      [] kind = "parse" -> Null
      [] kind = "ok" -> Result(data)

\* A handler that also clears the form when the send failed.
SubmitContinuationAlwaysReset(res) ==
    IF res = Rejected THEN [alert |-> "none", reset |-> FALSE]
    ELSE IF res # Null /\ Truthy(res.data) THEN [alert |-> "success", reset |-> TRUE]
    ELSE [alert |-> "failure", reset |-> TRUE]

\* A handler with no else branch: nothing is shown when the send failed.
SubmitContinuationNoElse(res) ==
    IF res = Rejected THEN [alert |-> "none", reset |-> FALSE]
    ELSE IF res # Null /\ Truthy(res.data) THEN [alert |-> "success", reset |-> TRUE]
    ELSE [alert |-> "none", reset |-> FALSE]

\* The submit handler after `await sendEmail(...)`: if (res && res.data)
\* { alert(success); form.reset() } else { alert(failure) }. Had the promise
\* rejected, the await would throw and the handler end with neither.
SubmitContinuation(res) ==
    IF res = Rejected THEN [alert |-> "none", reset |-> FALSE]
    ELSE IF res # Null /\ Truthy(res.data) THEN [alert |-> "success", reset |-> TRUE]
    ELSE [alert |-> "failure", reset |-> FALSE]

\* A handler that sends to the address typed into the form.
SubmitPropsToSubmitter(name, email, message) ==
    [sendTo |-> <<[name |-> name, email |-> email]>>,
     subject |-> Subject,
     htmlpart |-> formSubmitTemplate(name, email, message)]

\* The argument the submit handler passes to sendEmail.
SubmitProps(name, email, message) ==
    [sendTo |-> <<[name |-> name, email |-> Destination]>>,
     subject |-> Subject,
     htmlpart |-> formSubmitTemplate(name, email, message)]

----------------------------------------------------------------------------
(* The page *)

\* The values a user may leave in each form control.
FieldValues ==
    [name |-> {<<>>, <<"n">>, <<" ", "n", " ">>},
     email |-> {<<>>, <<"e", " ">>},
     message |-> {<<>>, <<" ">>, <<" ", "m">>}]

FieldNames == {"name", "email", "message"}

\* form.reset() restores the controls' default values: the page's controls
\* start empty.
FormDefaults == [name |-> <<>>, email |-> <<>>, message |-> <<>>]

\* The page as served: the menu panel and the close icon carry the class
\* "hidden", the hamburger icon does not. TRUE: the element has the class.
MenuInit == [mobileMenu |-> TRUE, hamburgerIcon |-> FALSE, closeIcon |-> TRUE]

\* The page holds the button, the panel and both icons.
MenuElementsPresent == TRUE

\* A handler that forgets the hamburger icon.
ToggleMenuTwoOnly(m) ==
    [mobileMenu |-> ~m.mobileMenu, hamburgerIcon |-> m.hamburgerIcon, closeIcon |-> ~m.closeIcon]

\* A handler that uses classList.add in place of classList.toggle on the icons.
ToggleMenuAdd(m) ==
    [mobileMenu |-> ~m.mobileMenu, hamburgerIcon |-> TRUE, closeIcon |-> ~m.closeIcon]

\* classList.toggle('hidden') on the panel and on both icons.
ToggleMenu(m) ==
    [mobileMenu |-> ~m.mobileMenu, hamburgerIcon |-> ~m.hamburgerIcon, closeIcon |-> ~m.closeIcon]

NoPost == [sent |-> FALSE]
NoLast == [id |-> 0]
NoCall == [pc |-> "none"]

InFlight == {i \in Ids : pc[i] \in {"fetching", "parsing"}}

Init ==
    /\ ready = FALSE
    /\ menu = MenuInit
    /\ menuLog = <<MenuInit>>
    /\ fields = FormDefaults
    /\ pc = [i \in Ids |-> "idle"]
    /\ alerts = [i \in Ids |-> 0]
    /\ nSubmits = 0
    /\ nPosts = 0
    /\ lastPost = NoPost
    /\ last = NoLast
    /\ call = NoCall

\* The document fires DOMContentLoaded once; both scripts register their
\* listeners in that one dispatch.
DOMContentLoaded ==
    /\ ~ready
    /\ ready' = TRUE
    /\ UNCHANGED <<menu, menuLog, fields, pc, alerts, nSubmits, nPosts, lastPost, last, call>>

\* A click on #mobile-menu-button.
ClickMenuButton ==
    /\ ready
    /\ MenuElementsPresent
    /\ menu' = ToggleMenu(menu)
    /\ menuLog' = IF Len(menuLog) < 3 THEN Append(menuLog, menu')
                  ELSE Append(Tail(menuLog), menu')
    /\ UNCHANGED <<ready, fields, pc, alerts, nSubmits, nPosts, lastPost, last, call>>

\* The user edits one form control.
TypeField(f, v) ==
    /\ v # fields[f]
    /\ fields' = [fields EXCEPT ![f] = v]
    /\ UNCHANGED <<ready, menu, menuLog, pc, alerts, nSubmits, nPosts, lastPost, last, call>>

\* A submit handler that refuses to start while a request is in flight.
SubmitGuarded ==
    /\ ready
    /\ nSubmits < MaxSubmits
    /\ InFlight = {}
    /\ LET i == nSubmits + 1
           props == SubmitProps(Trim(fields.name), Trim(fields.email), Trim(fields.message))
       IN  /\ pc' = [pc EXCEPT ![i] = "fetching"]
           /\ lastPost' = [sent |-> TRUE, fields |-> fields, url |-> Endpoint,
                           body |-> RequestBody(props)]
    /\ nSubmits' = nSubmits + 1
    /\ nPosts' = nPosts + 1
    /\ UNCHANGED <<ready, menu, menuLog, fields, alerts, last, call>>

\* The submit event: the handler runs up to the await inside sendEmail, that
\* is, it reads and trims the controls, builds the template and the props,
\* and sendEmail builds the body and calls fetch.
Submit ==
    /\ ready
    /\ nSubmits < MaxSubmits
    /\ LET i == nSubmits + 1
           props == SubmitProps(Trim(fields.name), Trim(fields.email), Trim(fields.message))
       IN  /\ pc' = [pc EXCEPT ![i] = "fetching"]
           /\ lastPost' = [sent |-> TRUE, fields |-> fields, url |-> Endpoint,
                           body |-> RequestBody(props)]
    /\ nSubmits' = nSubmits + 1
    /\ nPosts' = nPosts + 1
    /\ UNCHANGED <<ready, menu, menuLog, fields, alerts, last, call>>

\* sendEmail returns and the handler of invocation i runs to its end.
Finish(i, kind, data) ==
    LET res == SendEmailReturn(kind, data)
        out == SubmitContinuation(res)
    IN  /\ pc' = [pc EXCEPT ![i] = "done"]
        /\ alerts' = [alerts EXCEPT ![i] = @ + (IF out.alert = "none" THEN 0 ELSE 1)]
        /\ fields' = IF out.reset THEN FormDefaults ELSE fields
        /\ last' = [id |-> i, kind |-> kind, data |-> data, result |-> res,
                    alert |-> out.alert, reset |-> out.reset]
        /\ UNCHANGED <<ready, menu, menuLog, nSubmits, nPosts, lastPost, call>>

\* A sendEmail that tries again when the fetch fails.
FetchRejectsRetry(i) ==
    /\ pc[i] = "fetching"
    /\ nPosts' = nPosts + 1
    /\ UNCHANGED <<ready, menu, menuLog, fields, pc, alerts, nSubmits, lastPost, last, call>>

\* The fetch of invocation i rejects (network or transport failure).
FetchRejects(i) ==
    /\ pc[i] = "fetching"
    /\ Finish(i, "network", "none")

\* The fetch of invocation i resolves with a response of the given status.
FetchResolves(i, status) ==
    /\ pc[i] = "fetching"
    /\ IF ResOk(status)
       THEN /\ pc' = [pc EXCEPT ![i] = "parsing"]
            /\ UNCHANGED <<ready, menu, menuLog, fields, alerts, nSubmits, nPosts,
                           lastPost, last, call>>
       ELSE Finish(i, "http", "none")

\* res.json() of invocation i settles: the body has arrived with this text.
JsonSettles(i, text) ==
    /\ pc[i] = "parsing"
    /\ IF Parsable(text) THEN Finish(i, "ok", text) ELSE Finish(i, "parse", "none")

Next ==
    \/ DOMContentLoaded
    \/ ClickMenuButton
    \/ \E f \in FieldNames : \E v \in FieldValues[f] : TypeField(f, v)
    \/ Submit
    \/ \E i \in Ids : FetchRejects(i)
    \/ \E i \in Ids : \E status \in Statuses : FetchResolves(i, status)
    \/ \E i \in Ids : \E text \in BodyTexts : JsonSettles(i, text)

Spec == Init /\ [][Next]_vars

----------------------------------------------------------------------------
(* sendEmail called directly, as its documentation and the example describe *)

Recipients == {<<[name |-> "John Doe", email |-> "user@example.com"]>>,
               <<[name |-> "John Doe", email |-> "john.doe@example.com"]>>}
Subjects == {"Welcome!", "New Message from Contact Form"}
Htmls == {<<"<h1>", "H", "</h1>">>, formSubmitTemplate(<<"J">>, <<"j">>, <<"h">>), <<>>}

\* The JSDoc (props.sendTo, props.subject, props.htmlPart) and the example
\* usage comment (sendTo, subject, html).
DocProps ==
    {[sendTo |-> r, subject |-> s, htmlPart |-> h] : r \in Recipients, s \in Subjects, h \in Htmls}
    \cup {[sendTo |-> r, subject |-> s, html |-> h] : r \in Recipients, s \in Subjects, h \in Htmls}

InitDoc ==
    /\ ready = FALSE
    /\ menu = MenuInit
    /\ menuLog = <<MenuInit>>
    /\ fields = FormDefaults
    /\ pc = [i \in Ids |-> "idle"]
    /\ alerts = [i \in Ids |-> 0]
    /\ nSubmits = 0
    /\ nPosts = 0
    /\ lastPost = NoPost
    /\ last = NoLast
    /\ call \in {[pc |-> "start", props |-> p] : p \in DocProps}

page == <<ready, menu, menuLog, fields, pc, alerts, nSubmits, lastPost, last>>

\* sendEmail(props) up to its await: the body is built and fetch is called.
DocCall ==
    /\ call.pc = "start"
    /\ call' = [pc |-> "fetching", props |-> call.props, posted |-> RequestBody(call.props)]
    /\ nPosts' = nPosts + 1
    /\ UNCHANGED page

DocReturn(kind, data) ==
    /\ call' = [pc |-> "returned", props |-> call.props, posted |-> call.posted,
                kind |-> kind, result |-> SendEmailReturn(kind, data)]
    /\ UNCHANGED <<page, nPosts>>

DocFetchRejects ==
    /\ call.pc = "fetching"
    /\ DocReturn("network", "none")

DocFetchResolves(status) ==
    /\ call.pc = "fetching"
    /\ IF ResOk(status)
       THEN /\ call' = [call EXCEPT !.pc = "parsing"]
            /\ UNCHANGED <<page, nPosts>>
       ELSE DocReturn("http", "none")

DocJsonSettles(text) ==
    /\ call.pc = "parsing"
    /\ IF Parsable(text) THEN DocReturn("ok", text) ELSE DocReturn("parse", "none")

NextDoc ==
    \/ DocCall
    \/ DocFetchRejects
    \/ \E status \in Statuses : DocFetchResolves(status)
    \/ \E text \in BodyTexts : DocJsonSettles(text)

SpecDoc == InitDoc /\ [][NextDoc]_vars

----------------------------------------------------------------------------
(* Properties *)

NonEmpty(f) == f.name # <<>> /\ f.email # <<>> /\ f.message # <<>>

RECURSIVE SumAlerts(_)
SumAlerts(n) == IF n = 0 THEN 0 ELSE alerts[n] + SumAlerts(n - 1)

\* C1: when the POST of a submission is answered with a non-2xx status, the
\* handler shows the failure alert (exactly one alert, not the success one)
\* and does not reset the form: the three fields are the same after the step
\* as before it.
C1_Non2xxFailureNoReset ==
    [][\A i \in Ids :
        (pc[i] = "fetching" /\ pc'[i] = "done" /\ last'.kind = "http")
        => /\ last'.id = i
           /\ last'.alert = "failure"
           /\ ~last'.reset
           /\ alerts'[i] = alerts[i] + 1
           /\ fields' = fields]_vars

\* A submission with all fields filled was answered non-2xx, the failure
\* alert was shown and the form still holds what was submitted.
C1_Witness ==
    /\ last.id # 0
    /\ last.kind = "http"
    /\ last.alert = "failure"
    /\ lastPost.sent /\ lastPost.fields = fields
    /\ NonEmpty(fields)

\* C2: a 2xx response whose body parses as JSON, whatever the value, makes
\* sendEmail return a non-null result and the handler show the success alert
\* and reset the form; the success alert is shown exactly when sendEmail
\* returned a non-null result.
C2_ParsableBodyMeansSuccess ==
    last.id # 0 =>
        /\ last.kind = "ok" => (last.result # Null /\ last.alert = "success" /\ last.reset)
        /\ (last.alert = "success") <=> (last.result # Null)

\* C3: sendEmail never rejects: a non-2xx response, a failed fetch and an
\* unparsable body each give null, a 2xx response with a parsable body gives
\* {data} around the parsed body, nothing else happens, and each of the three
\* failures ends in the same failure alert.
C3_SendEmailNeverRejects ==
    last.id # 0 =>
        /\ last.kind \in Kinds
        /\ last.result # Rejected
        /\ last.kind \in {"http", "network", "parse"} =>
               (last.result = Null /\ last.alert = "failure" /\ ~last.reset)
        /\ last.kind = "ok" =>
               (last.result = [tag |-> "object", data |-> last.data] /\ Parsable(last.data))

\* A response body that did not parse ended as null and the failure alert.
C3_Witness ==
    last.id # 0 /\ last.kind = "parse" /\ last.result = Null /\ last.alert = "failure"

\* C4: for a submission with non-empty name, email and message, the body
\* POSTed is {from, to, subject, htmlpart}: one recipient, whose email is the
\* configured destination whatever the email field held, the fixed subject,
\* the fixed sender, and an htmlpart that contains the (trimmed) name, email
\* and message as typed.
C4_RequestBodyShape ==
    (lastPost.sent /\ NonEmpty(lastPost.fields)) =>
        LET b == lastPost.body
            f == lastPost.fields
        IN  /\ lastPost.url = "https://send-email-api-v2.backendservices.in"
            /\ DOMAIN b = {"from", "to", "subject", "htmlpart"}
            /\ b.from = [name |-> "Simmer It", email |-> "noreply@arodos.com"]
            /\ Len(b.to) = 1
            /\ b.to[1].email = "you@example.com"
            /\ b.to[1].name = Trim(f.name)
            /\ b.subject = "New Message from Website Contact Form"
            /\ Contains(b.htmlpart, Trim(f.name))
            /\ Contains(b.htmlpart, Trim(f.email))
            /\ Contains(b.htmlpart, Trim(f.message))
            /\ Len(b.htmlpart) = 5 + Len(Trim(f.name)) + 2 * Len(Trim(f.email))
                                   + Len(Trim(f.message))

\* A submission with all three fields filled, the name with blanks around it.
C4_Witness ==
    /\ lastPost.sent
    /\ NonEmpty(lastPost.fields)
    /\ lastPost.fields.name = <<" ", "n", " ">>
    /\ Trim(lastPost.fields.email) = <<"e">>

\* C5: the hamburger icon and the close icon are never both visible, and
\* each click flips the hidden state of the panel and of both icons in one
\* step.
C5_IconsNeverBothVisible ==
    /\ ~(~menu.hamburgerIcon /\ ~menu.closeIcon)
    /\ menuLog[Len(menuLog)] = menu
    /\ Len(menuLog) >= 2 =>
           LET before == menuLog[Len(menuLog) - 1]
           IN  /\ menu.mobileMenu = ~before.mobileMenu
               /\ menu.hamburgerIcon = ~before.hamburgerIcon
               /\ menu.closeIcon = ~before.closeIcon

\* The menu is open after at least two clicks.
C5_Witness ==
    Len(menuLog) = 3 /\ ~menu.mobileMenu /\ ~menu.closeIcon /\ menu.hamburgerIcon

\* C6: one POST per sendEmail call whatever the outcome: the POSTs issued
\* are as many as the submit events handled.
C6_OnePostPerSubmit ==
    /\ nPosts = nSubmits
    /\ nSubmits = Cardinality({i \in Ids : pc[i] # "idle"})

\* Two submissions, the latest finished by a failed fetch, nothing in flight.
C6_Witness ==
    nSubmits = 2 /\ nPosts = 2 /\ InFlight = {} /\ last.id # 0 /\ last.kind = "network"

SettleSome(i) ==
    \/ FetchRejects(i)
    \/ \E status \in Statuses : FetchResolves(i, status)
    \/ \E text \in BodyTexts : JsonSettles(i, text)

\* C7: while a request is in flight nothing else is blocked: a further submit
\* is handled (up to the number of submits followed), a click on the menu
\* button is handled, any of the requests in flight may settle next, and a
\* settling request resumes only its own invocation.
C7_NothingBlockedInFlight ==
    /\ [](InFlight # {} =>
            /\ ENABLED ClickMenuButton
            /\ nSubmits < MaxSubmits => ENABLED Submit
            /\ \A i \in InFlight : ENABLED SettleSome(i))
    /\ [][\A i \in Ids : (pc[i] \in {"fetching", "parsing"} /\ pc'[i] # pc[i]) =>
            \A j \in Ids \ {i} : pc'[j] = pc[j] /\ alerts'[j] = alerts[j]]_vars

\* The second submission has finished while the first is still in flight.
C7_Witness ==
    pc[1] \in {"fetching", "parsing"} /\ pc[2] = "done" /\ last.id = 2

\* C8 as stated: the state after two clicks in succession is the state after
\* one.
C8_ClickIdempotent ==
    Len(menuLog) = 3 => menuLog[3] = menuLog[2]

\* C8 amended: two clicks in succession restore the state before the first
\* of them (and one click never leaves the state as it was), and the menu is
\* in one of two states, closed or open.
C8_ClickInvolution ==
    /\ Len(menuLog) = 3 => (menuLog[3] = menuLog[1] /\ menuLog[3] # menuLog[2])
    /\ menu \in {[mobileMenu |-> TRUE, hamburgerIcon |-> FALSE, closeIcon |-> TRUE],
                 [mobileMenu |-> FALSE, hamburgerIcon |-> TRUE, closeIcon |-> FALSE]}

\* The menu is closed again after two clicks.
C8_Witness ==
    Len(menuLog) = 3 /\ menu.mobileMenu /\ menuLog[2].mobileMenu = FALSE

\* C9: called as documented, with the HTML under htmlPart, sendEmail POSTs a
\* body whose htmlpart is that HTML.
C9_DocumentedHtmlPartPosted ==
    (call.pc \in {"fetching", "parsing", "returned"} /\ "htmlPart" \in DOMAIN call.props) =>
        /\ "htmlpart" \in DOMAIN call.posted
        /\ call.posted.htmlpart = call.props.htmlPart

\* C10 as stated: an invocation has shown no alert while its fetch is
\* pending and exactly one once its fetch has settled; the alerts shown are at
\* most the submissions, and as many once no request is in flight.
C10_AlertOnceFetchSettles ==
    /\ \A i \in Ids :
        /\ pc[i] \in {"idle", "fetching"} => alerts[i] = 0
        /\ pc[i] \in {"parsing", "done"} => alerts[i] = 1
    /\ SumAlerts(MaxSubmits) <= nSubmits
    /\ InFlight = {} => SumAlerts(MaxSubmits) = nSubmits

\* C10 amended: an invocation has shown no alert while its fetch or, after a
\* 2xx response, its res.json() is pending, and exactly one once sendEmail has
\* returned; the alerts shown are at most the submissions, and as many once
\* no request is in flight.
C10_AlertOncePerSubmit ==
    /\ \A i \in Ids :
        /\ pc[i] \in {"idle", "fetching", "parsing"} => alerts[i] = 0
        /\ pc[i] = "done" => alerts[i] = 1
    /\ SumAlerts(MaxSubmits) <= nSubmits
    /\ InFlight = {} => SumAlerts(MaxSubmits) = nSubmits

\* Two overlapping submissions: the later one has shown its alert, the
\* earlier one waits for its body.
C10_Witness ==
    /\ pc[1] = "parsing" /\ alerts[1] = 0
    /\ pc[2] = "done" /\ alerts[2] = 1
    /\ last.alert = "failure"

====
